---- MODULE Spec2Model ----
(***************************************************************************)
(* Model of the peer-synchronization layer: the PeerTable (peer registry)  *)
(* of p2p/peer and the SyncManager of netsync.                             *)
(*                                                                         *)
(* The specifications of the module:                                       *)
(*   Spec      the PeerTable driven by AddPeer / DeletePeer /              *)
(*             PurgeOldestPeer calls (each call is atomic: every method    *)
(*             holds pt.mutex from entry to return);                       *)
(*   SpecSel   the size computation of PeerTable.GetSelection for large    *)
(*             registries;                                                 *)
(*   SpecSync  the started SyncManager receiving one inventory request and *)
(*             running its handler against the local chain;                *)
(*   SpecData  the same for data requests;                                 *)
(*   SpecResp  the same for inventory responses and data responses;        *)
(*   SpecLoop  the life cycle of the SyncManager: Start, Stop, Wait, the   *)
(*             inbound queue, the completion stream and the main loop      *)
(*             (FairSpecLoop and FairSpecStream add the fairness of the Go *)
(*             scheduler and of the select);                               *)
(*   SpecSnap  the PeerTable with its readers GetAllPeers and GetSelection.*)
(***************************************************************************)
EXTENDS Integers, Sequences, FiniteSets, TLC

(* ----------------------------- bounds --------------------------------- *)

\* number of distinct peer identities the callers use
NumIDs == 2

\* number of Peer objects ever constructed (one per AddPeer call)
MaxObjs == 3

\* largest registry size GetSelection is computed for
MaxSelPeers == 1100

\* largest number of entries of a data request or an inventory response
MaxEntries == 2

\* capacity of the inbound queue (CfgSyncMessageQueueSize)
QueueCap == 2

\* capacity of the completion stream requestMgr.C
RMCap == 2

\* the histories of accepted, processed, emitted and consumed items keep
\* their first MaxHist elements
MaxHist == 2

(* --------------------------- PeerTable state --------------------------- *)

VARIABLES
    objs,       \* the heap of Peer objects: objs[r] is the Peer behind pointer r
    peers,      \* pt.peers   : the ordered slice of peer pointers
    peerMap,    \* pt.peerMap : identity -> peer pointer (Nil = no entry)
    addrMap,    \* pt.addrMap : address pointer -> peer pointer (Nil = no entry)
    call,       \* the last completed call: its name, arguments and results
    fault,      \* TRUE once a call has panicked (the process is gone)
    onlyAdds    \* TRUE while every call so far was an AddPeer of a new identity

ptVars == <<objs, peers, peerMap, addrMap, call, fault, onlyAdds>>

(* ------------------------ GetSelection size state ---------------------- *)

VARIABLES
    selN,       \* len(pt.peers) of the registry GetSelection is called on
    selRet      \* len(peerIDAddrs) the last GetSelection returned (-1: none yet)

selVars == <<selN, selRet>>

(* --------------------------- SyncManager state ------------------------- *)

VARIABLES
    chain,      \* the local chain: block hash -> hashes of its children
    smMsg,      \* the message the main loop took from sm.incoming last
    smSent      \* the calls on the dispatcher, the RequestManager and the
                \* consumer made while processing smMsg, in order

smVars == <<chain, smMsg, smSent>>

(* ----------------------- SyncManager life cycle state ------------------ *)

VARIABLES
    ctxDone,    \* sm.ctx is cancelled
    loop,       \* mainLoop: "idle" (not started), "running", "stopped"
                \* (returned on ctx.Done) or "panicked"
    rmLoop,     \* the RequestManager's loop: "idle", "running" or "exited"
    waitPc,     \* a caller of Wait: "idle", "rm" (in requestMgr.Wait),
                \* "wg" (in sm.wg.Wait) or "returned"
    incoming,   \* sm.incoming: the buffered channel of inbound messages
    rmC,        \* sm.requestMgr.C: the completion stream
    accepted,   \* the first messages whose HandleMessage send completed
    processed,  \* the first messages handed to processMessage
    emitted,    \* the first blocks the RequestManager sent on C
    consumed    \* the first values mainLoop passed to consumer.AddMessage

loopVars == <<ctxDone, loop, rmLoop, waitPc, incoming, rmC,
              accepted, processed, emitted, consumed>>

(* ------------------------- PeerTable readers state --------------------- *)

VARIABLES
    snap,       \* the slice the first GetAllPeers call returned
    build,      \* the Go toolchain the program was built with
    encFails    \* the hashes of the blocks rlp.EncodeToBytes fails on

rdVars == <<snap, build, encFails>>

vars == <<ptVars, selVars, smVars, loopVars, rdVars>>

\* the nil pointer
Nil == 0

IDs == 1 .. NumIDs

\* Pointers to the Peer objects constructed so far.
Refs == 1 .. Len(objs)

\* *NetAddress pointers.  Every connection builds its own NetAddress object,
\* so the address of the r-th Peer constructed is the r-th address object.
Addrs == 1 .. MaxObjs

\* The Peer type: identity, address pointer, direction, seed flag, lifecycle.
Peer == [id : IDs, addr : Addrs, outbound : BOOLEAN, seed : BOOLEAN,
         stopped : BOOLEAN]

\* A peer as its constructor leaves it: running.
NewPeer(id, addr, outbound, seed) ==
    [id |-> id, addr |-> addr, outbound |-> outbound, seed |-> seed,
     stopped |-> FALSE]

Range(s) == {s[i] : i \in DOMAIN s}

NoCall == [op |-> "none", id |-> Nil, peer |-> Nil, seed |-> FALSE,
           ok |-> FALSE, ret |-> Nil, sel |-> <<>>]

\* CreatePeerTable: two empty maps, a nil slice.
CreatePeerTable ==
    /\ objs = <<>>
    /\ peers = <<>>
    /\ peerMap = [i \in IDs |-> Nil]
    /\ addrMap = [a \in Addrs |-> Nil]
    /\ call = NoCall
    /\ fault = FALSE
    /\ onlyAdds = TRUE

(* ------------------------------- AddPeer ------------------------------- *)

\* Index of the first element of ps whose ID() is id, 0 when there is none
\* (the `for i, p := range pt.peers { if p.ID() == peer.ID() {... break}}').
FirstIndexOf(ps, heap, id) ==
    IF \E i \in DOMAIN ps : heap[ps[i]].id = id
    THEN CHOOSE i \in DOMAIN ps :
            /\ heap[ps[i]].id = id
            /\ \A j \in DOMAIN ps : heap[ps[j]].id = id => i <= j
    ELSE 0

\* AddPeerPeers with the else branch (the append of a new identity) missing
AddPeerPeersNoAppend(ps, pm, heap, r) ==
    LET i == FirstIndexOf(ps, heap, heap[r].id)
    IN  IF i # 0 THEN [ps EXCEPT ![i] = r] ELSE ps

\* pt.peers after AddPeer(r), r a pointer into heap.
AddPeerPeers(ps, pm, heap, r) ==
    LET id == heap[r].id
        i  == FirstIndexOf(ps, heap, id)
    IN  IF pm[id] # Nil
        THEN IF i # 0 THEN [ps EXCEPT ![i] = r] ELSE ps
        ELSE Append(ps, r)

\* The heap after AddPeer(r): the replaced peer is stopped and, if it was
\* outbound, the new peer takes over its seed flag.
AddPeerObjs(ps, pm, heap, r) ==
    LET id == heap[r].id
        i  == FirstIndexOf(ps, heap, id)
    IN  IF pm[id] # Nil /\ i # 0
        THEN LET p  == ps[i]
                 h1 == [heap EXCEPT ![p].stopped = TRUE]
             IN  IF h1[p].outbound
                 THEN [h1 EXCEPT ![r].seed = h1[p].seed]
                 ELSE h1
        ELSE heap

\* identities passed to AddPeer so far (every Peer constructed is added)
addedIDs == {objs[r].id : r \in Refs}

AddPeer(id, outbound, seed) ==
    /\ ~fault
    /\ Len(objs) < MaxObjs
    /\ LET r    == Len(objs) + 1
           heap == Append(objs, NewPeer(id, r, outbound, seed))
       IN  /\ peers' = AddPeerPeers(peers, peerMap, heap, r)
           /\ objs' = AddPeerObjs(peers, peerMap, heap, r)
           /\ peerMap' = [peerMap EXCEPT ![id] = r]
           /\ addrMap' = [addrMap EXCEPT ![heap[r].addr] = r]
           /\ call' = [op |-> "AddPeer", id |-> id, peer |-> r, seed |-> seed,
                       ok |-> TRUE, ret |-> Nil, sel |-> <<>>]
    /\ onlyAdds' = (onlyAdds /\ id \notin addedIDs)
    /\ UNCHANGED fault
    /\ UNCHANGED <<selVars, smVars, loopVars, rdVars>>

(* ------------------------------ DeletePeer ----------------------------- *)

\* append(s[:i], s[i+1:]...) done in place on the backing array arr, where
\* the slice is arr[1..n] and idx = i+1 is the 1-based position removed:
\* the elements after idx move one slot left, the last slot keeps its value.
RemoveAt(arr, n, idx) ==
    [k \in DOMAIN arr |-> IF k >= idx /\ k < n THEN arr[k + 1] ELSE arr[k]]

\* The loop `for idx, peer := range pt.peers` of DeletePeer.  The range
\* expression is evaluated once, so the loop visits the Len(arr) slots of the
\* backing array the slice had on entry, reading each slot when it gets to it,
\* while pt.peers (arr[1..n]) shrinks underneath.  pt.peers[idx+1:] panics
\* when idx+1 > len(pt.peers), i.e. (1-based) when idx > n.
RECURSIVE DeleteLoop(_, _, _, _, _)
DeleteLoop(arr, n, idx, id, heap) ==
    IF idx > Len(arr)
    THEN [arr |-> arr, n |-> n, fault |-> FALSE]
    ELSE IF heap[arr[idx]].id = id
         THEN IF idx > n
              THEN [arr |-> arr, n |-> n, fault |-> TRUE]
              ELSE DeleteLoop(RemoveAt(arr, n, idx), n - 1, idx + 1, id, heap)
         ELSE DeleteLoop(arr, n, idx + 1, id, heap)

DeletePeer(id) ==
    /\ ~fault
    /\ IF peerMap[id] = Nil
       THEN UNCHANGED <<peers, peerMap, addrMap, fault>>
       ELSE LET res == DeleteLoop(peers, Len(peers), 1, id, objs)
            IN  /\ peerMap' = [peerMap EXCEPT ![id] = Nil]
                /\ addrMap' = [addrMap EXCEPT ![objs[peerMap[id]].addr] = Nil]
                /\ peers' = SubSeq(res.arr, 1, res.n)
                /\ fault' = res.fault
    /\ call' = [op |-> "DeletePeer", id |-> id, peer |-> Nil, seed |-> FALSE,
                ok |-> FALSE, ret |-> Nil, sel |-> <<>>]
    /\ onlyAdds' = FALSE
    /\ UNCHANGED objs
    /\ UNCHANGED <<selVars, smVars, loopVars, rdVars>>

(* --------------------------- PurgeOldestPeer --------------------------- *)

\* The peer the scan `for idx, pr := range pt.peers { if !pr.IsSeed() {
\* peer = pt.peers[idx] } }` ends with: the last non-seed element, or nil.
PurgeScan(ps, heap) ==
    LET ns == {i \in DOMAIN ps : ~heap[ps[i]].seed}
    IN  IF ns = {} THEN Nil
        ELSE ps[CHOOSE i \in ns : \A j \in ns : j <= i]

PurgeOldestPeer ==
    /\ ~fault
    /\ LET peer == PurgeScan(peers, objs)
       IN  /\ IF peer # Nil
              THEN /\ peerMap' = [peerMap EXCEPT ![objs[peer].id] = Nil]
                   /\ peers' = Tail(peers)
              ELSE UNCHANGED <<peers, peerMap>>
           /\ call' = [op |-> "PurgeOldestPeer", id |-> Nil, peer |-> Nil,
                       seed |-> FALSE, ok |-> FALSE, ret |-> peer,
                       sel |-> <<>>]
    /\ onlyAdds' = FALSE
    /\ UNCHANGED <<objs, addrMap, fault>>
    /\ UNCHANGED <<selVars, smVars, loopVars, rdVars>>

(* ------------------------------ the lookups ---------------------------- *)

GetPeer(id) == peerMap[id]

PeerExists(id) == peerMap[id] # Nil

GetPeerWithAddr(a) == addrMap[a]

\* a copy of the slice: the same pointers in the same order
GetAllPeers == [i \in 1 .. Len(peers) |-> peers[i]]

GetTotalNumPeers == Len(peers)

(* ----------------------------- GetSelection --------------------------- *)

\* % of total peers known returned by GetSelection
getSelectionPercent == 23

\* min peers that must be returned by GetSelection
minGetSelection == 32

\* max peers returned by GetSelection
maxGetSelection == 250

MinInt(a, b) == IF a < b THEN a ELSE b

MaxInt(a, b) == IF a > b THEN a ELSE b

\* numPeers with the percentage taken after the division: len/100*percent
NumPeersDivideFirst(n) ==
    MinInt(maxGetSelection,
           MaxInt(MinInt(minGetSelection, n), (n \div 100) * getSelectionPercent))

\* numPeers of GetSelection for a registry of n peers
NumPeers(n) ==
    MinInt(maxGetSelection,
           MaxInt(MinInt(minGetSelection, n), (n * getSelectionPercent) \div 100))

\* len(peerIDAddrs): nil for an empty registry, otherwise one entry for each
\* of the first numPeers elements of the (partially shuffled) copy.
GetSelectionLen(n) == IF n = 0 THEN 0 ELSE NumPeers(n)

GetSelectionSize ==
    /\ selRet' = GetSelectionLen(selN)
    /\ UNCHANGED <<selN, ptVars, smVars, loopVars, rdVars>>

(* ------------------------ the readers of the table -------------------- *)

\* the sequences of results of rand.Intn(len(peers)-i), i = 0 .. numPeers-1,
\* for len(peers) = n
RandChoices(n, numPeers) ==
    {js \in [1 .. numPeers -> 0 .. n - 1] :
        \A k \in 1 .. numPeers : js[k] < n - (k - 1)}

\* The loop `for i := 0; i < numPeers; i++` of GetSelection on the array arr
\* from i on: j := js[i] + i, swap arr[i] and arr[j] (0-based).
RECURSIVE Shuffle(_, _, _, _)
Shuffle(arr, i, numPeers, js) ==
    IF i >= numPeers THEN arr
    ELSE LET j == js[i + 1] + i
         IN  Shuffle([arr EXCEPT ![i + 1] = arr[j + 1], ![j + 1] = arr[i + 1]],
                     i + 1, numPeers, js)

PeerIDAddress(heap, r) == [ID |-> heap[r].id, Addr |-> heap[r].addr]

\* GetSelection with the random choices js: what it returns and what it leaves
\* in pt.peers.  The shuffle works on the copy made by make and copy.
GetSelectionRun(ps, heap, js) ==
    IF Len(ps) = 0 THEN [ret |-> <<>>, peers |-> ps]
    ELSE LET copied   == [i \in 1 .. Len(ps) |-> ps[i]]
             numPeers == NumPeers(Len(copied))
             shuffled == Shuffle(copied, 0, numPeers, js)
         IN  [ret   |-> [k \in 1 .. numPeers |-> PeerIDAddress(heap, shuffled[k])],
              peers |-> ps]

GetSelection ==
    /\ ~fault
    /\ \E js \in RandChoices(Len(peers), GetSelectionLen(Len(peers))) :
          LET run == GetSelectionRun(peers, objs, js)
          IN  /\ peers' = run.peers
              /\ call' = [op |-> "GetSelection", id |-> Nil, peer |-> Nil,
                          seed |-> FALSE, ok |-> FALSE, ret |-> Nil,
                          sel |-> run.ret]
    /\ UNCHANGED <<objs, peerMap, addrMap, fault, onlyAdds>>
    /\ UNCHANGED <<selVars, smVars, loopVars, rdVars>>

\* the slice GetAllPeers returns: one with an array of its own
GetAllPeersRet == [shared |-> FALSE, arr |-> GetAllPeers]

\* the first GetAllPeers call; the caller keeps the slice
GetAllPeersCall ==
    /\ ~fault
    /\ ~snap.taken
    /\ snap' = [taken |-> TRUE, shared |-> GetAllPeersRet.shared,
                arr |-> GetAllPeersRet.arr]
    /\ call' = [op |-> "GetAllPeers", id |-> Nil, peer |-> Nil,
                seed |-> FALSE, ok |-> FALSE, ret |-> Nil, sel |-> <<>>]
    /\ UNCHANGED <<objs, peers, peerMap, addrMap, fault, onlyAdds, build, encFails>>
    /\ UNCHANGED <<selVars, smVars, loopVars>>

\* what the caller reads in the slice it keeps: the slice's own array, or,
\* for a slice that shares the array of pt.peers, what that array holds now
SnapView ==
    IF snap.shared
    THEN [i \in 1 .. Len(snap.arr) |->
             IF i <= Len(peers) THEN peers[i] ELSE snap.arr[i]]
    ELSE snap.arr

(* ------------------------------ hex strings ---------------------------- *)

\* encoding/hex: the digits EncodeToString writes
hextable == <<"0", "1", "2", "3", "4", "5", "6", "7",
              "8", "9", "a", "b", "c", "d", "e", "f">>

upperDigits == <<"A", "B", "C", "D", "E", "F">>

\* fromHexChar: the value of a hex character, -1 for any other character
FromHexChar(c) ==
    IF \E i \in 1 .. 16 : hextable[i] = c
    THEN (CHOOSE i \in 1 .. 16 : hextable[i] = c) - 1
    ELSE IF \E i \in 1 .. 6 : upperDigits[i] = c
         THEN (CHOOSE i \in 1 .. 6 : upperDigits[i] = c) + 9
         ELSE -1

\* hex.DecodeString: a string is a sequence of characters, the result a
\* sequence of bytes; an odd length or a non-hex character is an error.
DecodeString(str) ==
    LET ok == /\ Len(str) % 2 = 0
              /\ \A i \in DOMAIN str : FromHexChar(str[i]) >= 0
    IN  [ok    |-> ok,
         bytes |-> IF ok
                   THEN [i \in 1 .. (Len(str) \div 2) |->
                           16 * FromHexChar(str[2 * i - 1]) + FromHexChar(str[2 * i])]
                   ELSE <<>>]

\* hex.EncodeToString: two lower-case digits per byte
EncodeToString(bytes) ==
    [i \in 1 .. (2 * Len(bytes)) |->
        IF i % 2 = 1 THEN hextable[(bytes[(i + 1) \div 2] \div 16) + 1]
                     ELSE hextable[(bytes[i \div 2] % 16) + 1]]

(* ------------------------------ the chain ------------------------------ *)

\* dispatcher.MaxInventorySize
MaxInventorySize == 3

\* inbound hash strings: the empty string, a string of odd length, a string
\* with a character that is no hex digit, the four block hashes in lower
\* case and one of them in upper case
ReqStrings ==
    {<<>>, <<"0">>, <<"g", "0">>,
     <<"0", "0">>, <<"0", "a">>, <<"a", "0">>, <<"a", "a">>, <<"0", "A">>}

\* block hashes of the local chain: one byte each
Hashes == {<<0>>, <<10>>, <<160>>, <<170>>}

GenesisHash == <<0>>

ChannelIDHeader == "Header"

ChannelIDBlock == "Block"

ChannelIDProposal == "Proposal"

ChannelIDCC == "CC"

ChannelIDVote == "Vote"

\* GetChannelIDs(): the channels the SyncManager is registered for
GetChannelIDs ==
    <<ChannelIDHeader, ChannelIDBlock, ChannelIDProposal, ChannelIDCC,
      ChannelIDVote>>

\* the channels messages arrive on
ChannelIDs == Range(GetChannelIDs)

\* chain.FindBlock: found iff the hash is a block of the chain; the block
\* carries the hashes of its children in the order they were added.
FindBlock(ch, hash) ==
    IF hash \in DOMAIN ch
    THEN [err |-> FALSE, Children |-> ch[hash]]
    ELSE [err |-> TRUE, Children |-> <<>>]

\* The chain accepts block h as a new child of the known block parent.
ChainAddBlock(h, parent) ==
    /\ h \notin DOMAIN chain
    /\ parent \in DOMAIN chain
    /\ chain' = [x \in DOMAIN chain \cup {h} |->
                    IF x = h THEN <<>>
                    ELSE IF x = parent THEN Append(chain[x], h)
                    ELSE chain[x]]
    /\ UNCHANGED <<smMsg, smSent, ptVars, selVars, loopVars, rdVars>>

(* --------------------------- handleInvRequest -------------------------- *)

InventoryRequest(channel, start, end) ==
    [type |-> "InventoryRequest", ChannelID |-> channel, Start |-> start,
     End |-> end]

InventoryResponse(channel, entries) ==
    [type |-> "InventoryResponse", ChannelID |-> channel, Entries |-> entries]

\* dispatcher.SendInventory(peerIDs, resp) as a recorded call
SendInventory(peerIDs, resp) ==
    [call |-> "SendInventory", peerIDs |-> peerIDs, resp |-> resp]

\* The walk `for i := 0; i < dispatcher.MaxInventorySize; i++` from curr;
\* ok is FALSE when a lookup failed (the handler returns without sending).
RECURSIVE InvWalk(_, _, _, _, _)
InvWalk(ch, curr, end, i, blocks) ==
    IF i >= MaxInventorySize
    THEN [ok |-> TRUE, blocks |-> blocks]
    ELSE LET b1    == Append(blocks, EncodeToString(curr))
             block == FindBlock(ch, curr)
         IN  IF block.err
             THEN [ok |-> FALSE, blocks |-> b1]
             ELSE IF Len(block.Children) = 0
             THEN [ok |-> TRUE, blocks |-> b1]
             ELSE IF block.Children[1] = end
             THEN [ok |-> TRUE, blocks |-> Append(b1, EncodeToString(end))]
             ELSE InvWalk(ch, block.Children[1], end, i + 1, b1)

\* The dispatcher calls handleInvRequest(peerID, req) makes.
HandleInvRequest(ch, peerID, req) ==
    IF req.ChannelID # ChannelIDBlock THEN <<>>
    ELSE IF req.Start = <<>> THEN <<>>
    ELSE LET curr == DecodeString(req.Start)
             end  == DecodeString(req.End)
         IN  IF ~curr.ok \/ ~end.ok THEN <<>>
             ELSE LET w == InvWalk(ch, curr.bytes, end.bytes, 0, <<>>)
                  IN  IF ~w.ok THEN <<>>
                      ELSE <<SendInventory(<<peerID>>,
                                 InventoryResponse(ChannelIDBlock, w.blocks))>>

(* --------------------------------- rlp --------------------------------- *)

\* rlp.EncodeToBytes: the payload names the type encoded and the value
RlpEncode(kind, v) == [rlp |-> kind, val |-> v]

\* a payload that is the encoding of nothing
Garbage == [rlp |-> "garbage", val |-> [junk |-> TRUE]]

\* rlp.DecodeBytes(payload, target of type kind)
RlpDecode(payload, kind) ==
    [err |-> payload.rlp # kind, val |-> payload.val]

\* rlp.EncodeToBytes(block.Block): the error, for the blocks it fails on, or
\* the payload
EncodeToBytes(block) ==
    [err |-> block.Hash \in encFails, bytes |-> RlpEncode("Block", block)]

\* core.Block
Block(hash) == [Hash |-> hash]

(* --------------------------- handleDataRequest ------------------------- *)

DataRequest(channel, entries) ==
    [type |-> "DataRequest", ChannelID |-> channel, Entries |-> entries]

DataResponse(channel, payload) ==
    [type |-> "DataResponse", ChannelID |-> channel, Payload |-> payload]

\* dispatcher.SendData(peerIDs, data) as a recorded call
SendData(peerIDs, data) ==
    [call |-> "SendData", peerIDs |-> peerIDs, resp |-> data]

\* `for _, hashStr := range data.Entries` from entry k on: an entry that does
\* not decode, is not found or is not encoded ends the handler (return).
RECURSIVE DataLoop(_, _, _, _, _)
DataLoop(ch, peerID, entries, k, sent) ==
    IF k > Len(entries) THEN sent
    ELSE LET hash    == DecodeString(entries[k])
             payload == EncodeToBytes(Block(hash.bytes))
         IN  IF ~hash.ok THEN sent
             ELSE IF FindBlock(ch, hash.bytes).err THEN sent
             ELSE IF payload.err THEN sent
             ELSE DataLoop(ch, peerID, entries, k + 1,
                    Append(sent,
                       SendData(<<peerID>>,
                          DataResponse(ChannelIDBlock, payload.bytes))))

\* The dispatcher calls handleDataRequest(peerID, data) makes.
HandleDataRequest(ch, peerID, data) ==
    IF data.ChannelID = ChannelIDBlock
    THEN DataLoop(ch, peerID, data.Entries, 1, <<>>)
    ELSE <<>>

(* --------------------------- handleInvResponse ------------------------- *)

\* requestMgr.AddHash(hash, peerIDs) as a recorded call
AddHash(hash, peerIDs) ==
    [call |-> "AddHash", hash |-> hash, peerIDs |-> peerIDs]

\* `for _, hashStr := range resp.Entries` from entry k on: an entry that does
\* not decode ends the handler (return).
RECURSIVE InvRespLoop(_, _, _, _)
InvRespLoop(peerID, entries, k, calls) ==
    IF k > Len(entries) THEN calls
    ELSE LET hash == DecodeString(entries[k])
         IN  IF ~hash.ok THEN calls
             ELSE InvRespLoop(peerID, entries, k + 1,
                     Append(calls, AddHash(hash.bytes, <<peerID>>)))

\* The requestMgr calls handleInvResponse(peerID, resp) makes.
HandleInvResponse(peerID, resp) ==
    IF resp.ChannelID = ChannelIDBlock
    THEN InvRespLoop(peerID, resp.Entries, 1, <<>>)
    ELSE <<>>

(* --------------------------- handleDataResponse ------------------------ *)

\* a nil pointer; a pointer that is not nil is <<the value it points to>>
NilPtr == <<>>

\* core.Vote: the hash of the block voted for (NilPtr: vote.Block is nil) and
\* the voter
Vote(block, id) == [Block |-> block, ID |-> id]

\* core.Proposal: a block and a pointer to a commit certificate, which is the
\* list cc.Votes.Votes() of its votes
Proposal(block, cc) == [Block |-> block, CommitCertificate |-> cc]

\* requestMgr.AddBlock(block) as a recorded call
AddBlock(block) == [call |-> "AddBlock", block |-> block]

\* consumer.AddMessage(ptr) as a recorded call: the pointer passed, the value
\* it points to during the call and the value it points to when the handler
\* returns (the consumer keeps the pointer).
AddMessage(ptr, val, final) ==
    [call |-> "AddMessage", ptr |-> ptr, val |-> val, final |-> final]

\* handleBlock
HandleBlock(block) == <<AddBlock(block)>>

\* handleVote with the forwarding skipped for a vote that names a block
HandleVoteReturnsAfterAddHash(vote) ==
    IF vote.Block # NilPtr
    THEN <<AddHash(vote.Block, <<>>)>>
    ELSE <<AddMessage(<<"vote", vote>>, vote, vote)>>

\* handleVote: vote is a pointer to the freshly decoded vote
HandleVote(vote) ==
    (IF vote.Block # NilPtr THEN <<AddHash(vote.Block, <<>>)>> ELSE <<>>)
    \o <<AddMessage(<<"vote", vote>>, vote, vote)>>

\* handleCC: `for _, vote := range cc.Votes.Votes() { AddMessage(&vote) }`.
\* &vote is the address of the loop variable.  A toolchain with one variable
\* per loop ("perloop", Go before 1.22) passes the same pointer in every
\* iteration, and the variable holds the last vote when the loop is over; a
\* toolchain with one variable per iteration ("periteration") passes a new
\* pointer each time.
HandleCC(cc) ==
    [k \in 1 .. Len(cc) |->
        IF build = "perloop"
        THEN AddMessage(<<"loopvar", 1>>, cc[k], cc[Len(cc)])
        ELSE AddMessage(<<"loopvar", k>>, cc[k], cc[k])]

\* handleProposal
HandleProposal(p) ==
    (IF p.CommitCertificate # NilPtr
     THEN HandleCC(p.CommitCertificate[1]) ELSE <<>>)
    \o HandleBlock(p.Block)

\* The calls handleDataResponse(peerID, data) makes.
HandleDataResponse(peerID, data) ==
    CASE data.ChannelID = ChannelIDBlock ->
            LET d == RlpDecode(data.Payload, "Block")
            IN  IF d.err THEN <<>> ELSE HandleBlock(d.val)
      [] data.ChannelID = ChannelIDVote ->
            LET d == RlpDecode(data.Payload, "Vote")
            IN  IF d.err THEN <<>> ELSE HandleVote(d.val)
      [] data.ChannelID = ChannelIDProposal ->
            LET d == RlpDecode(data.Payload, "Proposal")
            IN  IF d.err THEN <<>> ELSE HandleProposal(d.val)
      [] OTHER -> <<>>

(* ------------------------------ the main loop -------------------------- *)

Message(peerID, content) == [PeerID |-> peerID, Content |-> content]

NoMsg == [PeerID |-> Nil, Content |-> [type |-> "none"]]

\* the inventory requests peers send
InvRequests ==
    {InventoryRequest(c, s, e) : c \in ChannelIDs, s \in ReqStrings, e \in ReqStrings}

\* sequences over S of length at most n
RECURSIVE SeqsUpTo(_, _)
SeqsUpTo(S, n) ==
    IF n = 0 THEN {<<>>}
    ELSE LET shorter == SeqsUpTo(S, n - 1)
         IN  shorter \cup {Append(q, x) : q \in shorter, x \in S}

\* hash strings of data requests and inventory responses: a known block, two
\* blocks unknown until the chain grows, and a string that does not decode
EntryStrings == {<<"0", "0">>, <<"0", "a">>, <<"a", "0">>, <<"g", "0">>}

\* the data requests peers send
DataRequests ==
    {DataRequest(c, es) : c \in ChannelIDs, es \in SeqsUpTo(EntryStrings, MaxEntries)}

\* the inventory responses peers send
InvResponses ==
    {InventoryResponse(c, es) :
        c \in ChannelIDs, es \in SeqsUpTo(EntryStrings, MaxEntries)}

\* votes: for no block, for the genesis block, for a block not in the chain
Votes == {Vote(b, 1) : b \in {NilPtr, <<0>>, <<10>>}}

Proposals ==
    {Proposal(Block(<<10>>), cc) :
        cc \in {NilPtr} \cup {<<vs>> : vs \in SeqsUpTo(Votes, MaxEntries)}}

Payloads ==
    {Garbage} \cup {RlpEncode("Block", Block(h)) : h \in {<<0>>, <<10>>}}
              \cup {RlpEncode("Vote", v) : v \in Votes}
              \cup {RlpEncode("Proposal", p) : p \in Proposals}

\* the data responses peers send
DataResponses == {DataResponse(c, pl) : c \in ChannelIDs, pl \in Payloads}

\* logger.Panic("Received unknown message")
Panic == [call |-> "Panic"]

\* processMessage: the type switch on message.Content
ProcessMessage(ch, msg) ==
    CASE msg.Content.type = "InventoryRequest" ->
            HandleInvRequest(ch, msg.PeerID, msg.Content)
      [] msg.Content.type = "InventoryResponse" ->
            HandleInvResponse(msg.PeerID, msg.Content)
      [] msg.Content.type = "DataRequest" ->
            HandleDataRequest(ch, msg.PeerID, msg.Content)
      [] msg.Content.type = "DataResponse" ->
            HandleDataResponse(msg.PeerID, msg.Content)
      [] OTHER -> <<Panic>>

(* ----------------------- Start, Stop, Wait, mainLoop ------------------- *)

\* a history: the first MaxHist elements of the sequence of all items
Record(hist, v) == IF Len(hist) < MaxHist THEN Append(hist, v) ELSE hist

\* the first n elements of q
Take(q, n) == SubSeq(q, 1, IF Len(q) < n THEN Len(q) ELSE n)

\* a receive that lets the second element of the channel overtake the first
ChanRecvSecond(ch) ==
    IF Len(ch) >= 2
    THEN [val |-> ch[2], rest |-> <<ch[1]>> \o SubSeq(ch, 3, Len(ch))]
    ELSE [val |-> Head(ch), rest |-> Tail(ch)]

\* a receive that takes the newest element of the channel
ChanRecvNewest(ch) ==
    [val |-> ch[Len(ch)], rest |-> SubSeq(ch, 1, Len(ch) - 1)]

\* `<-ch` on a buffered channel that is not empty: the oldest element
ChanRecv(ch) == [val |-> Head(ch), rest |-> Tail(ch)]

\* a WaitGroup nothing was added to
WgCountNoAdd == IF loop = "running" THEN 0 ELSE 0

\* the counter of sm.wg: Start adds 1, mainLoop's deferred Done takes it off
WgCount == IF loop = "running" THEN 1 ELSE 0

\* a main loop that keeps the genesis block from the consumer
ForwardBlockUnlessGenesis(block) ==
    IF block.Hash = GenesisHash THEN <<>>
    ELSE <<AddMessage(<<"block", block>>, block, block)>>

\* `case block := <-sm.requestMgr.C: sm.consumer.AddMessage(block)`
ForwardBlock(block) == <<AddMessage(<<"block", block>>, block, block)>>

\* the unrecovered panic of the main loop's goroutine has ended the process
Crashed == loop = "panicked"

\* a payload type processMessage has no case for
UnknownContent == [type |-> "Unknown"]

\* the messages the network hands to HandleMessage, both of peer 1: one that
\* is handled (it carries a block) and one with an unknown payload type
LoopMessages ==
    { Message(1, DataResponse(ChannelIDBlock, RlpEncode("Block", Block(<<10>>)))),
      Message(1, UnknownContent) }

\* the blocks the RequestManager emits on requestMgr.C
StreamBlocks == {Block(<<0>>), Block(<<10>>)}

\* Start(ctx): the context, requestMgr.Start, wg.Add(1), go mainLoop()
Start ==
    /\ loop = "idle"
    /\ loop' = "running"
    /\ rmLoop' = "running"
    /\ UNCHANGED <<ctxDone, waitPc, incoming, rmC, accepted, processed,
                   emitted, consumed>>
    /\ UNCHANGED <<ptVars, selVars, smVars, rdVars>>

\* Stop(): sm.cancel(), which Start has set
Stop ==
    /\ loop # "idle" /\ ~Crashed
    /\ ~ctxDone
    /\ ctxDone' = TRUE
    /\ UNCHANGED <<loop, rmLoop, waitPc, incoming, rmC, accepted, processed,
                   emitted, consumed>>
    /\ UNCHANGED <<ptVars, selVars, smVars, rdVars>>

\* HandleMessage(msg): `sm.incoming <- msg`, which blocks while the queue is
\* full
HandleMessage(msg) ==
    /\ ~Crashed
    /\ Len(incoming) < QueueCap
    /\ incoming' = Append(incoming, msg)
    /\ accepted' = Record(accepted, msg)
    /\ UNCHANGED <<ctxDone, loop, rmLoop, waitPc, rmC, processed, emitted,
                   consumed>>
    /\ UNCHANGED <<ptVars, selVars, smVars, rdVars>>

\* mainLoop, `case <-sm.ctx.Done()`: stopped = true, return, wg.Done()
MainLoopDone ==
    /\ loop = "running"
    /\ ctxDone
    /\ loop' = "stopped"
    /\ UNCHANGED <<ctxDone, rmLoop, waitPc, incoming, rmC, accepted, processed,
                   emitted, consumed>>
    /\ UNCHANGED <<ptVars, selVars, smVars, rdVars>>

\* mainLoop, `case msg := <-sm.incoming`: processMessage(msg); the panic of
\* its default branch is not recovered
MainLoopIncoming ==
    /\ loop = "running"
    /\ incoming # <<>>
    /\ LET r == ChanRecv(incoming)
           calls == ProcessMessage(chain, r.val)
       IN  /\ incoming' = r.rest
           /\ processed' = Record(processed, r.val)
           /\ smMsg' = r.val
           /\ smSent' = calls
           /\ loop' = IF \E i \in DOMAIN calls : calls[i] = Panic
                      THEN "panicked" ELSE loop
    /\ UNCHANGED <<ctxDone, rmLoop, waitPc, rmC, accepted, emitted, consumed>>
    /\ UNCHANGED <<chain, ptVars, selVars, rdVars>>

\* mainLoop, `case block := <-sm.requestMgr.C`
MainLoopBlock ==
    /\ loop = "running"
    /\ rmC # <<>>
    /\ LET r == ChanRecv(rmC)
           calls == ForwardBlock(r.val)
       IN  /\ rmC' = r.rest
           /\ consumed' = IF calls = <<>> THEN consumed
                          ELSE Record(consumed, calls[1].val)
    /\ UNCHANGED <<ctxDone, loop, rmLoop, waitPc, incoming, accepted, processed,
                   emitted>>
    /\ UNCHANGED <<ptVars, selVars, smVars, rdVars>>

\* the RequestManager's loop sends a fetched block on requestMgr.C
RMEmit(block) ==
    /\ rmLoop = "running" /\ ~Crashed
    /\ Len(rmC) < RMCap
    /\ rmC' = Append(rmC, block)
    /\ emitted' = Record(emitted, block)
    /\ UNCHANGED <<ctxDone, loop, rmLoop, waitPc, incoming, accepted, processed,
                   consumed>>
    /\ UNCHANGED <<ptVars, selVars, smVars, rdVars>>

\* the RequestManager's loop observes the cancellation and exits
RMExit ==
    /\ rmLoop = "running" /\ ~Crashed
    /\ ctxDone
    /\ rmLoop' = "exited"
    /\ UNCHANGED <<ctxDone, loop, waitPc, incoming, rmC, accepted, processed,
                   emitted, consumed>>
    /\ UNCHANGED <<ptVars, selVars, smVars, rdVars>>

\* Wait() is called, after Start
WaitCall ==
    /\ waitPc = "idle"
    /\ loop # "idle" /\ ~Crashed
    /\ waitPc' = "rm"
    /\ UNCHANGED <<ctxDone, loop, rmLoop, incoming, rmC, accepted, processed,
                   emitted, consumed>>
    /\ UNCHANGED <<ptVars, selVars, smVars, rdVars>>

\* Wait(): sm.requestMgr.Wait() returns
WaitRM ==
    /\ waitPc = "rm" /\ ~Crashed
    /\ rmLoop = "exited"
    /\ waitPc' = "wg"
    /\ UNCHANGED <<ctxDone, loop, rmLoop, incoming, rmC, accepted, processed,
                   emitted, consumed>>
    /\ UNCHANGED <<ptVars, selVars, smVars, rdVars>>

\* Wait(): sm.wg.Wait() returns, and so does Wait
WaitWG ==
    /\ waitPc = "wg" /\ ~Crashed
    /\ WgCount = 0
    /\ waitPc' = "returned"
    /\ UNCHANGED <<ctxDone, loop, rmLoop, incoming, rmC, accepted, processed,
                   emitted, consumed>>
    /\ UNCHANGED <<ptVars, selVars, smVars, rdVars>>

\* the network delivers msg, the first message of the run, through
\* HandleMessage
Deliver(msg) ==
    /\ incoming = <<>>
    /\ smMsg = NoMsg
    /\ HandleMessage(msg)

(* --------------------------- the specifications ------------------------ *)

\* the SyncManager as NewSyncManager leaves it: nothing started, empty queues
LoopIdle ==
    /\ ctxDone = FALSE
    /\ loop = "idle"
    /\ rmLoop = "idle"
    /\ waitPc = "idle"
    /\ incoming = <<>>
    /\ rmC = <<>>
    /\ accepted = <<>>
    /\ processed = <<>>
    /\ emitted = <<>>
    /\ consumed = <<>>

\* no GetAllPeers call yet
NoSnap == [taken |-> FALSE, shared |-> FALSE, arr |-> <<>>]

\* a registry of any size up to MaxSelPeers, GetSelection not yet called
SelInit ==
    /\ CreatePeerTable
    /\ selN \in 0 .. MaxSelPeers
    /\ selRet = -1
    /\ chain = (GenesisHash :> <<>>)
    /\ smMsg = NoMsg
    /\ smSent = <<>>
    /\ LoopIdle
    /\ snap = NoSnap /\ build = "perloop" /\ encFails = {}

Init ==
    /\ CreatePeerTable
    /\ selN = 0 /\ selRet = -1
    /\ chain = (GenesisHash :> <<>>)
    /\ smMsg = NoMsg
    /\ smSent = <<>>
    /\ LoopIdle
    /\ snap = NoSnap /\ build = "perloop" /\ encFails = {}

Next ==
    \/ \E id \in IDs, ob \in BOOLEAN, sd \in BOOLEAN : AddPeer(id, ob, sd)
    \/ \E id \in IDs : DeletePeer(id)
    \/ PurgeOldestPeer

Spec == Init /\ [][Next]_vars

SelNext == GetSelectionSize

SpecSel == SelInit /\ [][SelNext]_vars

SnapNext ==
    \/ \E id \in IDs, sd \in BOOLEAN : AddPeer(id, FALSE, sd)
    \/ \E id \in IDs : DeletePeer(id)
    \/ PurgeOldestPeer
    \/ GetAllPeersCall
    \/ GetSelection

SpecSnap == Init /\ [][SnapNext]_vars

SyncInit ==
    /\ CreatePeerTable
    /\ selN = 0 /\ selRet = -1
    /\ chain = (GenesisHash :> <<>>)
    /\ smMsg = NoMsg
    /\ smSent = <<>>
    /\ LoopIdle
    /\ snap = NoSnap /\ build = "perloop" /\ encFails = {}

SyncNext ==
    \/ \E h \in Hashes, parent \in Hashes : ChainAddBlock(h, parent)
    \/ Start
    \/ \E p \in IDs, c \in InvRequests : Deliver(Message(p, c))
    \/ MainLoopIncoming

SpecSync == SyncInit /\ [][SyncNext]_vars

\* the SyncManager before any message; rlp encodes every block, or fails on
\* the genesis block
DataInit ==
    /\ CreatePeerTable
    /\ selN = 0 /\ selRet = -1
    /\ chain = (GenesisHash :> <<>>)
    /\ smMsg = NoMsg
    /\ smSent = <<>>
    /\ LoopIdle
    /\ snap = NoSnap /\ build = "perloop"
    /\ encFails \in {{}, {GenesisHash}}

DataNext ==
    \/ \E h \in Hashes, parent \in Hashes : ChainAddBlock(h, parent)
    \/ Start
    \/ \E p \in IDs, c \in DataRequests : Deliver(Message(p, c))
    \/ MainLoopIncoming

SpecData == DataInit /\ [][DataNext]_vars

\* the SyncManager of either toolchain, before any message
RespInit ==
    /\ CreatePeerTable
    /\ selN = 0 /\ selRet = -1
    /\ chain = (GenesisHash :> <<>>)
    /\ smMsg = NoMsg
    /\ smSent = <<>>
    /\ LoopIdle
    /\ snap = NoSnap
    /\ build \in {"perloop", "periteration"}
    /\ encFails = {}

RespNext ==
    \/ Start
    \/ \E p \in IDs, c \in InvResponses : Deliver(Message(p, c))
    \/ \E p \in IDs, c \in DataResponses : Deliver(Message(p, c))
    \/ MainLoopIncoming

SpecResp == RespInit /\ [][RespNext]_vars

LoopNext ==
    \/ Start
    \/ Stop
    \/ \E msg \in LoopMessages : HandleMessage(msg)
    \/ MainLoopDone
    \/ MainLoopIncoming
    \/ MainLoopBlock
    \/ \E block \in StreamBlocks : RMEmit(block)
    \/ RMExit
    \/ WaitCall
    \/ WaitRM
    \/ WaitWG

SpecLoop == SyncInit /\ [][LoopNext]_vars

\* The select of mainLoop chooses among its ready cases at random, so the
\* ready cancellation case is not passed over for ever; the RequestManager's
\* loop observes the cancellation likewise, and a caller of Wait that can
\* go on does.
FairSpecLoop ==
    /\ SyncInit /\ [][LoopNext]_vars
    /\ WF_vars(MainLoopDone)
    /\ WF_vars(RMExit)
    /\ WF_vars(WaitRM)
    /\ WF_vars(WaitWG)

\* The same select does not pass over a block that waits on requestMgr.C for
\* ever either.
FairSpecStream ==
    /\ FairSpecLoop
    /\ WF_vars(MainLoopBlock)

TypeOK ==
    /\ objs \in Seq(Peer)
    /\ peers \in Seq(Refs)
    /\ peerMap \in [IDs -> Refs \cup {Nil}]
    /\ addrMap \in [Addrs -> Refs \cup {Nil}]
    /\ fault \in BOOLEAN

(* ======================= PeerTable: the claims ========================= *)

InPeers(r) == r \in Range(peers)

\* C1: in every reachable state the three views agree: a peer is in the
\* ordered sequence iff it is the value under its identity in peerMap and the
\* value under its address in addrMap, and neither map holds an entry for a
\* peer that is not in the sequence.
C1_ViewsAgree ==
    /\ \A r \in Refs :
          InPeers(r) <=> (peerMap[objs[r].id] = r /\ addrMap[objs[r].addr] = r)
    /\ \A i \in IDs : peerMap[i] # Nil => InPeers(peerMap[i])
    /\ \A a \in Addrs : addrMap[a] # Nil => InPeers(addrMap[a])

\* C2: PurgeOldestPeer never removes a seed peer: every seed peer that was in
\* GetAllPeers() before the call is in GetAllPeers() after it, and is still
\* what GetPeer returns for its identity if it was before.
C2_SeedsSurvivePurge ==
    [][call'.op = "PurgeOldestPeer" =>
         \A r \in Range(peers) :
            objs[r].seed =>
              /\ r \in Range(peers')
              /\ (peerMap[objs[r].id] = r => peerMap'[objs[r].id] = r)]_vars

\* the least-recently-added non-seed peer of the ordered sequence
OldestNonSeed(ps, heap) ==
    ps[CHOOSE i \in DOMAIN ps :
          /\ ~heap[ps[i]].seed
          /\ \A j \in DOMAIN ps : ~heap[ps[j]].seed => i <= j]

\* C3: when the registry holds a non-seed peer, PurgeOldestPeer returns the
\* least-recently-added non-seed peer, and exactly that peer is gone from the
\* identity map and from the ordered sequence, whose length drops by one.
C3_PurgesOldestNonSeed ==
    [][(call'.op = "PurgeOldestPeer" /\ \E r \in Range(peers) : ~objs[r].seed) =>
         LET v == OldestNonSeed(peers, objs)
         IN  /\ call'.ret = v
             /\ peerMap' = [peerMap EXCEPT ![objs[v].id] = Nil]
             /\ peers' = SelectSeq(peers, LAMBDA x : x # v)
             /\ Len(peers') = Len(peers) - 1]_vars

\* C4: DeletePeer(id) completes without fault; afterwards GetPeer(id) is
\* not-found, PeerExists(id) is false and no peer with identity id is in
\* GetAllPeers(); when id is absent from the identity map nothing changes.
C4_DeletePeerRemoves ==
    [][call'.op = "DeletePeer" =>
         /\ ~fault'
         /\ peerMap'[call'.id] = Nil
         /\ \A r \in Range(peers') : objs[r].id # call'.id
         /\ (peerMap[call'.id] = Nil => UNCHANGED <<peers, peerMap, addrMap>>)]_vars

\* the fault clause of C4 alone: no DeletePeer call panics
DeletePeerNeverFaults == ~fault

\* C5: from an empty registry, after AddPeer calls with pairwise distinct
\* identities GetTotalNumPeers() is the number of identities added, and every
\* AddPeer call returned true.
C5_DistinctAddsCount ==
    /\ onlyAdds => GetTotalNumPeers = Cardinality(addedIDs)
    /\ call.op = "AddPeer" => call.ok

C5_Witness ==
    /\ onlyAdds
    /\ call.op = "AddPeer"
    /\ Cardinality(addedIDs) >= 2
    /\ GetTotalNumPeers >= 2

\* C6: AddPeer(new) when a peer old is registered under the same identity:
\* old is stopped, GetPeer(identity) returns new, and new's seed flag is old's
\* if old was outbound, otherwise the flag new arrived with.
C6_ReplaceStopsOldInheritsSeed ==
    [][(call'.op = "AddPeer" /\ peerMap[call'.id] # Nil) =>
         LET old == peerMap[call'.id]
             new == call'.peer
         IN  /\ objs'[old].stopped
             /\ peerMap'[call'.id] = new
             /\ objs'[new].seed =
                   IF objs[old].outbound THEN objs[old].seed ELSE call'.seed]_vars

\* C7: AddPeer of a known identity replaces in place (same index, every other
\* position and the length unchanged); AddPeer of an unknown identity appends
\* at the end; either way the added peer is in GetAllPeers().
C7_ReplaceInPlaceOrAppend ==
    [][call'.op = "AddPeer" =>
         LET old == peerMap[call'.id]
             new == call'.peer
         IN  /\ old # Nil =>
                   \E i \in DOMAIN peers :
                      peers[i] = old /\ peers' = [peers EXCEPT ![i] = new]
             /\ old = Nil => peers' = Append(peers, new)
             /\ new \in Range(peers')]_vars

(* ======================= GetSelection: the claims ====================== *)

\* C8: for a registry of n peers GetSelection returns exactly
\* min(250, max(floor(23*n/100), min(32, n))) entries: none for n = 0, all n
\* for n <= 32, never more than n and never more than 250.
C8_SelectionSize ==
    selRet # -1 =>
      LET n   == selN
          pct == (23 * n) \div 100
      IN  /\ selRet = (IF n <= 32 THEN n
                       ELSE IF pct <= 32 THEN 32
                       ELSE IF pct <= 250 THEN pct
                       ELSE 250)
          /\ n = 0 => selRet = 0
          /\ n <= 32 => selRet = n
          /\ selRet <= n
          /\ selRet <= 250

C8_Witness == selN = 1000 /\ selRet = 230

C8_WitnessCap == selN > 1087 /\ selRet = 250

(* ======================= SyncManager: the claims ======================= *)

IsInvSend(s) == s.call = "SendInventory"

\* C9: the inventory response passed to SendInventory holds at most
\* dispatcher.MaxInventorySize hashes, for every request and every chain.
C9_InventoryBounded ==
    \A i \in DOMAIN smSent :
       IsInvSend(smSent[i]) => Len(smSent[i].resp.Entries) <= MaxInventorySize

\* C10: an inventory request on the block channel whose start hash equals its
\* end hash and names a locally known block yields exactly one SendInventory,
\* to the origin peer, whose entries are the single hash start (compared as a
\* hash, whatever the case of the hex digits), children or no children.
C10_StartEqualsEndSingleEntry ==
    [][(/\ Len(incoming') < Len(incoming)
        /\ smMsg'.Content.type = "InventoryRequest"
        /\ smMsg'.Content.ChannelID = ChannelIDBlock
        /\ smMsg'.Content.Start = smMsg'.Content.End
        /\ DecodeString(smMsg'.Content.Start).ok
        /\ DecodeString(smMsg'.Content.Start).bytes \in DOMAIN chain) =>
         /\ Len(smSent') = 1
         /\ IsInvSend(smSent'[1])
         /\ smSent'[1].peerIDs = <<smMsg'.PeerID>>
         /\ Len(smSent'[1].resp.Entries) = 1
         /\ DecodeString(smSent'[1].resp.Entries[1]).bytes =
               DecodeString(smMsg'.Content.Start).bytes]_vars

(* ----------------------- claims about the handlers --------------------- *)

\* the number of indices of the sequence q whose element satisfies Test
CountIdx(q, Test(_)) == Cardinality({i \in DOMAIN q : Test(q[i])})

\* C11: for a data request on the block channel, an entry that does not
\* decode, names a block not found locally or names a block that fails to
\* encode produces no SendData, and every other entry, wherever it is listed,
\* produces exactly one SendData of its block to the origin peer.
C11_DataRequestServesEveryKnownHash ==
    [][(/\ Len(incoming') < Len(incoming)
        /\ smMsg'.Content.type = "DataRequest"
        /\ smMsg'.Content.ChannelID = ChannelIDBlock) =>
         LET entries == smMsg'.Content.Entries
             Known(str) == /\ DecodeString(str).ok
                           /\ DecodeString(str).bytes \in DOMAIN chain
                           /\ DecodeString(str).bytes \notin encFails
         IN  /\ \A i \in DOMAIN smSent' :
                   /\ smSent'[i].call = "SendData"
                   /\ smSent'[i].peerIDs = <<smMsg'.PeerID>>
             /\ \A h \in Hashes :
                   LET Sends(c) == c.resp.Payload = RlpEncode("Block", Block(h))
                       Asks(str) == Known(str) /\ DecodeString(str).bytes = h
                   IN  CountIdx(smSent', Sends) = CountIdx(entries, Asks)]_vars

IsAddMessage(c) == c.call = "AddMessage"

IsAddHash(c) == c.call = "AddHash"

\* the vote decoded from the data response msg on the vote channel
IsVoteResponse(msg) ==
    /\ msg.Content.type = "DataResponse"
    /\ msg.Content.ChannelID = ChannelIDVote
    /\ msg.Content.Payload.rlp = "Vote"

\* C12: a vote decoded from a data response on the vote channel is passed to
\* consumer.AddMessage exactly once, whatever block it names; when it names a
\* block, AddHash(hash of that block, no peers) is called once, before the
\* AddMessage, and when it names none AddHash is not called.
C12_VoteForwardedOnce ==
    IsVoteResponse(smMsg) =>
        LET vote == smMsg.Content.Payload.val
        IN  /\ CountIdx(smSent, IsAddMessage) = 1
            /\ \A i \in DOMAIN smSent :
                  IsAddMessage(smSent[i]) =>
                     /\ smSent[i].val = vote /\ smSent[i].final = vote
                     /\ \A j \in DOMAIN smSent : IsAddHash(smSent[j]) => j < i
            /\ IF vote.Block # NilPtr
               THEN /\ CountIdx(smSent, IsAddHash) = 1
                    /\ \A j \in DOMAIN smSent :
                          IsAddHash(smSent[j]) =>
                             smSent[j] = AddHash(vote.Block, <<>>)
               ELSE CountIdx(smSent, IsAddHash) = 0

\* a vote for a block that is not in the chain has been forwarded, and so has
\* a vote for no block
C12_Witness ==
    /\ IsVoteResponse(smMsg)
    /\ smMsg.Content.Payload.val.Block # NilPtr
    /\ smMsg.Content.Payload.val.Block \notin DOMAIN chain
    /\ Len(smSent) = 2
    /\ IsAddHash(smSent[1])
    /\ IsAddMessage(smSent[2])

\* C18: for an inventory response on the block channel from peer P, every
\* entry that decodes is registered by AddHash(hash, <<P>>), whatever entries
\* are listed before it, and nothing else is registered; for any other channel
\* nothing is registered.
C18_InvResponseRegistersEveryHash ==
    smMsg.Content.type = "InventoryResponse" =>
        LET entries == smMsg.Content.Entries
        IN  IF smMsg.Content.ChannelID = ChannelIDBlock
            THEN /\ \A i \in DOMAIN smSent : IsAddHash(smSent[i])
                 /\ \A h \in Hashes :
                       LET Adds(c) == c = AddHash(h, <<smMsg.PeerID>>)
                           Names(str) == /\ DecodeString(str).ok
                                         /\ DecodeString(str).bytes = h
                       IN  CountIdx(smSent, Adds) = CountIdx(entries, Names)
            ELSE smSent = <<>>

\* the proposal decoded from the data response msg on the proposal channel
IsProposalResponse(msg) ==
    /\ msg.Content.type = "DataResponse"
    /\ msg.Content.ChannelID = ChannelIDProposal
    /\ msg.Content.Payload.rlp = "Proposal"

\* C19: a proposal makes one AddMessage call per vote of its commit
\* certificate, in certificate order, each carrying that vote's own value
\* (during the call and afterwards, the consumer holding on to the pointer),
\* and then one AddBlock call with the proposal's block; and no handler of a
\* data response passes a block to consumer.AddMessage.
C19_ProposalVotesThenBlock ==
    /\ IsProposalResponse(smMsg) =>
          LET p == smMsg.Content.Payload.val
              votes == IF p.CommitCertificate = NilPtr THEN <<>>
                       ELSE p.CommitCertificate[1]
          IN  /\ Len(smSent) = Len(votes) + 1
              /\ \A k \in DOMAIN votes :
                    /\ IsAddMessage(smSent[k])
                    /\ smSent[k].val = votes[k]
                    /\ smSent[k].final = votes[k]
              /\ smSent[Len(votes) + 1] = AddBlock(p.Block)
    /\ smMsg.Content.type = "DataResponse" =>
          \A i \in DOMAIN smSent :
             IsAddMessage(smSent[i]) => smSent[i].val \in Votes

(* ------------------------ claims about the main loop ------------------- *)

\* C13: the main loop stops on cancellation only: whatever messages and
\* blocks arrive, it is not over (returned or panicked) unless the
\* cancellation signal has fired.
C13_OnlyCancellationStops ==
    loop \in {"stopped", "panicked"} => ctxDone

\* C14: after Start, once Stop has been called the main loop exits, unless a
\* handler panics instead of returning; Wait returns only when the main
\* loop has exited; and a Wait that was called returns once Stop has been
\* called and the RequestManager's loop has exited.
C14_StopExitsLoopWaitReturns ==
    /\ [](waitPc = "returned" => loop = "stopped")
    /\ (ctxDone ~> (loop = "stopped" \/ Crashed))
    /\ ((waitPc # "idle" /\ ctxDone /\ rmLoop = "exited")
           ~> (waitPc = "returned" \/ Crashed))

\* Wait has returned after a Stop, the inbound queue and the completion
\* stream holding items all the same
C14_Witness ==
    /\ waitPc = "returned"
    /\ ctxDone
    /\ loop = "stopped"
    /\ incoming # <<>>
    /\ rmC # <<>>

\* C15 as stated: every block emitted on requestMgr.C is passed to
\* consumer.AddMessage in every run, so that when the main loop has returned
\* the blocks consumed are the blocks emitted.
C15_EveryEmittedBlockConsumed ==
    loop = "stopped" => consumed = emitted

\* C15, amended: the blocks passed to consumer.AddMessage, followed by the
\* blocks waiting on requestMgr.C, are the blocks emitted, in order of
\* emission (each block received is forwarded once, unfiltered, in order),
\* and every emitted block is eventually passed to consumer.AddMessage
\* unless the main loop ends first (cancellation, or a panicking handler).
C15_EmittedBlockConsumedUnlessLoopEnds ==
    /\ [](Take(consumed \o rmC, MaxHist) = emitted)
    /\ \A k \in 1 .. MaxHist :
          (Len(emitted) >= k)
             ~> (Len(consumed) >= k \/ loop \in {"stopped", "panicked"})

\* two different blocks were emitted and forwarded in the order emitted, and
\* two more blocks wait on the stream together
C15_Witness ==
    /\ Len(consumed) = 2
    /\ consumed[1] # consumed[2]
    /\ consumed = emitted
    /\ Len(rmC) >= 2
    /\ loop = "running"

\* C16: the messages handed to processMessage are a prefix of the messages
\* accepted into the inbound queue, in the order of acceptance; a message
\* accepted and not yet processed waits in the queue.
C16_ProcessedPrefixOfAccepted ==
    /\ Len(processed) <= Len(accepted)
    /\ processed = SubSeq(accepted, 1, Len(processed))
    /\ Take(processed \o incoming, MaxHist) = accepted

\* two different messages of the same peer were accepted and processed, in
\* the order accepted
C16_Witness ==
    /\ Len(processed) = 2
    /\ processed[1] # processed[2]
    /\ processed[1].PeerID = processed[2].PeerID
    /\ processed = accepted

(* -------------------- claims about the inventory walk ------------------ *)

\* C17: an inventory request on the block channel whose start hash is not
\* empty, decodes and names a locally known block, and whose end hash
\* decodes, yields exactly one SendInventory, to the origin peer only, whose
\* entries are the first-child path from start: entry 1 is start, each later
\* entry is Children[0] of the block before it, the end hash occurs only
\* as the last entry, and the last entry is the end hash, a childless block
\* or the entry at the size bound.  Any other inventory request yields no
\* call at all.
C17_InventoryIsFirstChildPath ==
    [][(/\ Len(incoming') < Len(incoming)
        /\ smMsg'.Content.type = "InventoryRequest") =>
         LET req   == smMsg'.Content
             start == DecodeString(req.Start)
             end   == DecodeString(req.End)
         IN  IF /\ req.ChannelID = ChannelIDBlock
                /\ req.Start # <<>>
                /\ start.ok /\ end.ok
                /\ start.bytes \in DOMAIN chain
             THEN /\ Len(smSent') = 1
                  /\ IsInvSend(smSent'[1])
                  /\ smSent'[1].peerIDs = <<smMsg'.PeerID>>
                  /\ LET es == smSent'[1].resp.Entries
                         E(k) == DecodeString(es[k]).bytes
                     IN  /\ Len(es) >= 1
                         /\ E(1) = start.bytes
                         /\ \A k \in 2 .. Len(es) :
                               /\ E(k - 1) \in DOMAIN chain
                               /\ chain[E(k - 1)] # <<>>
                               /\ E(k) = chain[E(k - 1)][1]
                         /\ \A k \in 1 .. Len(es) - 1 : E(k) # end.bytes
                         /\ \/ E(Len(es)) = end.bytes
                            \/ /\ E(Len(es)) \in DOMAIN chain
                               /\ chain[E(Len(es))] = <<>>
                            \/ Len(es) = MaxInventorySize
             ELSE smSent' = <<>>]_vars

(* ------------------------- claims about the readers -------------------- *)

\* C20: GetSelection leaves peers (order included), peerMap and addrMap as
\* they were, and returns entries of pairwise distinct peers, each the ID and
\* address of a peer in the peer list at the time of the call; and the slice
\* a GetAllPeers call returned reads the same after every later AddPeer,
\* DeletePeer and PurgeOldestPeer.
C20_ReadersAreSnapshots ==
    [][/\ call'.op = "GetSelection" =>
            /\ peers' = peers /\ peerMap' = peerMap /\ addrMap' = addrMap
            /\ \A k \in DOMAIN call'.sel :
                  \E r \in Range(peers) : call'.sel[k] = PeerIDAddress(objs, r)
            /\ \A k, l \in DOMAIN call'.sel :
                  k # l => call'.sel[k].ID # call'.sel[l].ID
       /\ (snap.taken /\ call'.op \in {"AddPeer", "DeletePeer", "PurgeOldestPeer"}) =>
            SnapView' = SnapView]_vars
====
